---------------------------- MODULE Spec2Model ----------------------------
(***************************************************************************)
(* Model of src/invoice_to_excel_enhanced.py: the response sanitizer       *)
(* (clean_json_response), the per-document orchestrator (parse_invoice),   *)
(* the batch loop with the DataFrame construction, and the summary         *)
(* statistics (create_summary_stats).                                      *)
(*                                                                         *)
(* Texts are sequences of one-character strings, so that the regular       *)
(* expressions and the JSON decoder act on characters as in the source.    *)
(***************************************************************************)
EXTENDS Integers, Sequences, FiniteSets, TLC

VARIABLES
    pc,             \* position of the running script / of the function under study
    uploaded_files, \* the uploaded documents (their names), in upload order
    idx,            \* number of documents the batch loop has finished
    rows,           \* the records appended by the batch loop
    tmp_files,      \* staged temporary files that exist on disk (by document index)
    tmp_path,       \* the temporary file of the running parse_invoice call (0: none)
    history,        \* per document: the collaborator calls made, how they ended,
                    \* the cause raised and the completion text returned
    df,             \* the DataFrame after df[column_order] (sequence of rows)
    stats,          \* the result of create_summary_stats
    text,           \* input of clean_json_response (sanitizer study)
    cleaned,        \* clean_json_response(text)
    recleaned       \* clean_json_response(cleaned)

vars == <<pc, uploaded_files, idx, rows, tmp_files, tmp_path, history,
          df, stats, text, cleaned, recleaned>>

batchVars == <<uploaded_files, idx, rows, tmp_files, tmp_path, history>>
frameVars == <<df, stats>>
cleanVars == <<text, cleaned, recleaned>>

-----------------------------------------------------------------------------
(* Characters and small text helpers                                       *)

\* BT stands for the backtick character (U+0060), which a TLA+ string literal
\* cannot hold
BT == "BACKTICK"
LB == "{"
RB == "}"
SP == " "
NL == "\n"
QT == "\""

\* \s of the re module and the characters str.strip() removes, within the alphabet
Whitespace == {SP, NL}

RECURSIVE Concat(_)
Concat(seqs) ==
    IF seqs = <<>> THEN <<>> ELSE Head(seqs) \o Concat(Tail(seqs))

Min(S) == CHOOSE k \in S : \A m \in S : k <= m
Max(S) == CHOOSE k \in S : \A m \in S : k >= m

\* t without its leading run of whitespace
DropLeadingWs(t) ==
    LET solid == {i \in 1..Len(t) : t[i] \notin Whitespace}
    IN  IF solid = {} THEN <<>> ELSE SubSeq(t, Min(solid), Len(t))

\* t without its trailing run of whitespace
DropTrailingWs(t) ==
    LET solid == {i \in 1..Len(t) : t[i] \notin Whitespace}
    IN  IF solid = {} THEN <<>> ELSE SubSeq(t, 1, Max(solid))

-----------------------------------------------------------------------------
(* clean_json_response                                                      *)

FENCE == <<BT, BT, BT>>
FENCE_JSON == <<BT, BT, BT, "j", "s", "o", "n">>

\* the positions where the marker occurs in t
occurrences(marker, t) ==
    {i \in 1..(Len(t) - Len(marker) + 1) : SubSeq(t, i, i + Len(marker) - 1) = marker}

\* re.sub(<marker>\s*, '', t, count=1): only the first match is deleted
re_sub_first(marker, t) ==
    LET hits == occurrences(marker, t)
    IN  IF hits = {} THEN t
        ELSE SubSeq(t, 1, Min(hits) - 1)
               \o DropLeadingWs(SubSeq(t, Min(hits) + Len(marker), Len(t)))

\* re.sub(<marker>\s*, '', t): scanning from the left, every match of the
\* marker with its greedy run of whitespace is deleted and the scan resumes
\* after the match
RECURSIVE re_sub(_, _)
re_sub(marker, t) ==
    LET hits == occurrences(marker, t)
    IN  IF hits = {} THEN t
        ELSE SubSeq(t, 1, Min(hits) - 1)
               \o re_sub(marker, DropLeadingWs(SubSeq(t, Min(hits) + Len(marker), Len(t))))

\* re.search(r'\{.*?\}', t, re.DOTALL): first '{' through the NEXT '}'
re_search_nongreedy(t) ==
    LET opens == {i \in 1..Len(t) : t[i] = LB /\ \E j \in (i+1)..Len(t) : t[j] = RB}
    IN  IF opens = {} THEN [found |-> FALSE]
        ELSE LET closes == {j \in (Min(opens) + 1)..Len(t) : t[j] = RB}
             IN  [found |-> TRUE, start |-> Min(opens), end |-> Min(closes)]

\* re.search(r'\{.*\}', t, re.DOTALL): leftmost '{' that some '}' follows,
\* then greedily through the last '}'
re_search(t) ==
    LET opens == {i \in 1..Len(t) : t[i] = LB /\ \E j \in (i+1)..Len(t) : t[j] = RB}
    IN  IF opens = {} THEN [found |-> FALSE]
        ELSE LET closes == {j \in (Min(opens) + 1)..Len(t) : t[j] = RB}
             IN  [found |-> TRUE, start |-> Min(opens), end |-> Max(closes)]

\* str.strip()
strip(t) == DropTrailingWs(DropLeadingWs(t))

clean_json_response(t) ==
    LET t1 == re_sub(FENCE_JSON, t)
        t2 == re_sub(FENCE, t1)
        match == re_search(t2)
    IN  IF match.found THEN SubSeq(t2, match.start, match.end) ELSE strip(t2)

-----------------------------------------------------------------------------
(* json.loads (the standard decoder the source calls), on the JSON the     *)
(* model's texts can hold: objects, arrays, strings without escapes,       *)
(* integers, null, true, false.  Positions are 0-based as in Python.       *)

Null == [t |-> "null"]
Str(v) == [t |-> "str", s |-> v]
Num(v) == [t |-> "num", n |-> v]
Bool(v) == [t |-> "bool", b |-> v]
List(v) == [t |-> "list", l |-> v]
Dict(v) == [t |-> "obj", o |-> v]

EmptyDict == [k \in {} |-> Null]

Ok(v, e) == [ok |-> TRUE, val |-> v, end |-> e]
Err(m, p) == [ok |-> FALSE, msg |-> m, pos |-> p]

\* s[p:p+1]
At(s, p) == IF p < Len(s) THEN s[p + 1] ELSE ""

JSON_WS == {" ", "\t", "\n", "\r"}

\* WHITESPACE.match(s, p).end(): the first position from p on that holds no
\* JSON whitespace
SkipWs(s, p) ==
    LET solid == {q \in p..(Len(s) - 1) : s[q + 1] \notin JSON_WS}
    IN  IF solid = {} THEN (IF p > Len(s) THEN p ELSE Len(s)) ELSE Min(solid)

Digits == {"0", "1", "2", "3", "4", "5", "6", "7", "8", "9"}

DigitVal(c) ==
    CASE c = "0" -> 0 [] c = "1" -> 1 [] c = "2" -> 2 [] c = "3" -> 3
      [] c = "4" -> 4 [] c = "5" -> 5 [] c = "6" -> 6 [] c = "7" -> 7
      [] c = "8" -> 8 [] c = "9" -> 9

\* scanstring(s, end): end is the position after the opening quote
RECURSIVE py_scanstring(_, _, _, _)
py_scanstring(s, p, acc, begin) ==
    IF p >= Len(s) THEN Err("Unterminated string starting at", begin)
    ELSE IF s[p + 1] = QT THEN Ok(acc, p + 1)
    ELSE IF s[p + 1] \in {"\n", "\t", "\r"}
         THEN Err("Invalid control character at", p)
    ELSE py_scanstring(s, p + 1, acc \o s[p + 1], begin)

RECURSIVE match_digits(_, _, _)
match_digits(s, p, acc) ==
    IF At(s, p) \in Digits
    THEN match_digits(s, p + 1, 10 * acc + DigitVal(At(s, p)))
    ELSE [n |-> acc, end |-> p]

\* the integer part of NUMBER_RE: -?(0|[1-9][0-9]*)
match_number(s, p) ==
    LET q == IF At(s, p) = "-" THEN p + 1 ELSE p
        sign == IF At(s, p) = "-" THEN -1 ELSE 1
    IN  IF At(s, q) = "0" THEN Ok(Num(0), q + 1)
        ELSE IF At(s, q) \in Digits
             THEN LET m == match_digits(s, q, 0) IN Ok(Num(sign * m.n), m.end)
             ELSE Err("Expecting value", p)

RECURSIVE scan_once(_, _)
RECURSIVE JSONObjectPairs(_, _, _)
RECURSIVE JSONArrayItems(_, _, _)

\* JSONObject after the first property's opening quote (p is past that quote)
JSONObjectPairs(s, p, pairs) ==
    LET k == py_scanstring(s, p, "", p - 1)
    IN  IF ~k.ok THEN k
        ELSE LET e1 == IF At(s, k.end) /= ":" THEN SkipWs(s, k.end) ELSE k.end
             IN  IF At(s, e1) /= ":" THEN Err("Expecting ':' delimiter", e1)
                 ELSE LET v == scan_once(s, SkipWs(s, e1 + 1))
                      IN  IF ~v.ok THEN v
                          ELSE LET e3 == SkipWs(s, v.end)
                                   dom == DOMAIN pairs \cup {k.val}
                                   upd == [x \in dom |-> IF x = k.val THEN v.val ELSE pairs[x]]
                               IN  IF At(s, e3) = RB THEN Ok(Dict(upd), e3 + 1)
                                   ELSE IF At(s, e3) /= ","
                                        THEN Err("Expecting ',' delimiter", e3)
                                   ELSE LET e4 == SkipWs(s, e3 + 1)
                                        IN  IF At(s, e4) /= QT
                                            THEN Err("Expecting property name enclosed in double quotes", e4)
                                            ELSE JSONObjectPairs(s, e4 + 1, upd)

\* JSONObject(s_and_end): p is the position after the opening brace
JSONObject(s, p) ==
    LET e1 == SkipWs(s, p)
    IN  IF At(s, e1) = RB THEN Ok(Dict(EmptyDict), e1 + 1)
        ELSE IF At(s, e1) /= QT
             THEN Err("Expecting property name enclosed in double quotes", e1)
        ELSE JSONObjectPairs(s, e1 + 1, EmptyDict)

JSONArrayItems(s, p, values) ==
    LET v == scan_once(s, p)
    IN  IF ~v.ok THEN v
        ELSE LET e2 == SkipWs(s, v.end)
                 vs == Append(values, v.val)
             IN  IF At(s, e2) = "]" THEN Ok(List(vs), e2 + 1)
                 ELSE IF At(s, e2) /= "," THEN Err("Expecting ',' delimiter", e2)
                 ELSE JSONArrayItems(s, SkipWs(s, e2 + 1), vs)

\* JSONArray(s_and_end): p is the position after the opening bracket
JSONArray(s, p) ==
    LET e1 == SkipWs(s, p)
    IN  IF At(s, e1) = "]" THEN Ok(List(<<>>), e1 + 1)
        ELSE JSONArrayItems(s, e1, <<>>)

scan_once(s, p) ==
    LET c == At(s, p)
    IN  IF p >= Len(s) THEN Err("Expecting value", p)
        ELSE IF c = QT
             THEN LET r == py_scanstring(s, p + 1, "", p)
                  IN  IF r.ok THEN Ok(Str(r.val), r.end) ELSE r
        ELSE IF c = LB THEN JSONObject(s, p + 1)
        ELSE IF c = "[" THEN JSONArray(s, p + 1)
        ELSE IF c = "n" /\ SubSeq(s, p + 1, p + 4) = <<"n", "u", "l", "l">>
             THEN Ok(Null, p + 4)
        ELSE IF c = "t" /\ SubSeq(s, p + 1, p + 4) = <<"t", "r", "u", "e">>
             THEN Ok(Bool(TRUE), p + 4)
        ELSE IF c = "f" /\ SubSeq(s, p + 1, p + 5) = <<"f", "a", "l", "s", "e">>
             THEN Ok(Bool(FALSE), p + 5)
        ELSE match_number(s, p)

\* str(JSONDecodeError): "<msg>: line <l> column <c> (char <pos>)"
JSONDecodeError(s, msg, pos) ==
    LET nls == {i \in 1..pos : s[i] = "\n"}
        lineno == Cardinality(nls) + 1
        colno == IF nls = {} THEN pos + 1 ELSE pos - (Max(nls) - 1)
    IN  msg \o ": line " \o ToString(lineno) \o " column " \o ToString(colno)
            \o " (char " \o ToString(pos) \o ")"

\* json.loads(s): [ok |-> TRUE, val] or [ok |-> FALSE, msg] (JSONDecodeError)
json_loads(s) ==
    LET r == scan_once(s, SkipWs(s, 0))
    IN  IF ~r.ok THEN [ok |-> FALSE, msg |-> JSONDecodeError(s, r.msg, r.pos)]
        ELSE LET e == SkipWs(s, r.end)
             IN  IF e /= Len(s)
                 THEN [ok |-> FALSE, msg |-> JSONDecodeError(s, "Extra data", e)]
                 ELSE [ok |-> TRUE, val |-> r.val]

-----------------------------------------------------------------------------
(* parse_invoice: records and exception handlers                            *)

DomainFields ==
    {"date", "invoice_number", "party_name", "party_address", "trn",
     "subtotal", "tax_amount", "net_total", "currency", "items_count"}

RecordKeys == DomainFields \cup {"source_file", "processing_status", "error_message"}

\* the dict literal with the message left out
failed_record_no_message(name, message) ==
    [k \in RecordKeys |->
        IF k = "source_file" THEN Str(name)
        ELSE IF k = "processing_status" THEN Str("failed")
        ELSE Null]

\* the dict literal both except clauses return
failed_record(name, message) ==
    [k \in RecordKeys |->
        IF k = "source_file" THEN Str(name)
        ELSE IF k = "processing_status" THEN Str("failed")
        ELSE IF k = "error_message" THEN message
        ELSE Null]

\* data["source_file"] = ...; data["processing_status"] = "success";
\* data["error_message"] = None, on the dict json.loads returned
success_record(data, name) ==
    [k \in DOMAIN data \cup {"source_file", "processing_status", "error_message"} |->
        IF k = "source_file" THEN Str(name)
        ELSE IF k = "processing_status" THEN Str("success")
        ELSE IF k = "error_message" THEN Null
        ELSE data[k]]

\* str(TypeError) of data["source_file"] = ... when data is not a dict
item_assignment_error(v) ==
    IF v.t = "list" THEN "list indices must be integers or slices, not str"
    ELSE LET tn == CASE v.t = "null" -> "NoneType" [] v.t = "str" -> "str"
                     [] v.t = "num" -> "int" [] v.t = "bool" -> "bool"
         IN  "'" \o tn \o "' object does not support item assignment"

Returned(record) == [returned |-> TRUE, record |-> record]
Propagated(exc) == [returned |-> FALSE, exc |-> exc]

\* only "except json.JSONDecodeError": any other exception leaves parse_invoice
parse_invoice_except_json_only(exc, name) ==
    IF exc.type = "JSONDecodeError"
    THEN Returned(failed_record(name, Str("JSON parsing error: " \o exc.msg)))
    ELSE Propagated(exc)

\* only "except Exception": the decoder's message is stored without a prefix
parse_invoice_except_broad_only(exc, name) ==
    Returned(failed_record(name, Str(exc.msg)))

\* the two except clauses of parse_invoice; exc = [type, msg] with msg = str(e)
parse_invoice_except(exc, name) ==
    IF exc.type = "JSONDecodeError"
    THEN Returned(failed_record(name, Str("JSON parsing error: " \o exc.msg)))
    ELSE Returned(failed_record(name, Str(exc.msg)))

\* lines 128-138 and the handlers: from response.text to the returned dict
parse_invoice_payload(response_text, name) ==
    LET cleaned_response == clean_json_response(response_text)
        data == json_loads(cleaned_response)
    IN  IF ~data.ok
        THEN parse_invoice_except([type |-> "JSONDecodeError", msg |-> data.msg], name)
        ELSE IF data.val.t /= "obj"
             THEN parse_invoice_except(
                      [type |-> "TypeError", msg |-> item_assignment_error(data.val)], name)
             ELSE Returned(success_record(data.val.o, name))

-----------------------------------------------------------------------------
(* DataFrame construction and create_summary_stats                          *)

column_order ==
    <<"processing_status", "source_file", "date", "invoice_number",
      "party_name", "party_address", "trn", "currency",
      "subtotal", "tax_amount", "net_total", "items_count", "error_message">>

Range(f) == {f[i] : i \in DOMAIN f}

\* pd.DataFrame(rows): the columns are the union of the rows' keys
frame_columns(rs) == UNION {DOMAIN rs[i] : i \in 1..Len(rs)}

\* df[column_order] raises KeyError when a requested column is not in the frame
selection_raises(rs) == ~(Range(column_order) \subseteq frame_columns(rs))

\* pd.DataFrame(rows)[column_order]: a key missing from a row reads NaN (Null)
DataFrame(rs) ==
    [i \in 1..Len(rs) |->
        [c \in Range(column_order) |-> IF c \in DOMAIN rs[i] THEN rs[i][c] ELSE Null]]

RECURSIVE series_sum(_, _)
\* Series.sum(): NaN/None are skipped; the sum of nothing is 0
series_sum(d, col) ==
    IF d = <<>> THEN 0
    ELSE (IF Head(d)[col].t = "num" THEN Head(d)[col].n ELSE 0) + series_sum(Tail(d), col)

series_count(d, col) == Cardinality({i \in 1..Len(d) : d[i][col].t = "num"})

Ratio(a, b) == [t |-> "ratio", num |-> a, den |-> b]
NaN == [t |-> "nan"]

\* Series.mean(): sum / count over the non-null values, NaN when there is none
series_mean(d, col) ==
    IF series_count(d, col) = 0 THEN NaN
    ELSE Ratio(series_sum(d, col), series_count(d, col))

is_success(r) == r["processing_status"] = Str("success")

\* the aggregates taken without the "if len(successful) > 0" guard
create_summary_stats_unguarded(d) ==
    LET successful == SelectSeq(d, is_success)
    IN  [total_files |-> Len(d),
         successful |-> Len(successful),
         failed |-> Len(d) - Len(successful),
         total_amount |-> Num(series_sum(successful, "net_total")),
         avg_amount |-> series_mean(successful, "net_total"),
         total_tax |-> Num(series_sum(successful, "tax_amount"))]

create_summary_stats(d) ==
    LET successful == SelectSeq(d, is_success)
    IN  [total_files |-> Len(d),
         successful |-> Len(successful),
         failed |-> Len(d) - Len(successful),
         total_amount |-> IF Len(successful) > 0
                          THEN Num(series_sum(successful, "net_total")) ELSE Num(0),
         avg_amount |-> IF Len(successful) > 0
                        THEN series_mean(successful, "net_total") ELSE Num(0),
         total_tax |-> IF Len(successful) > 0
                       THEN Num(series_sum(successful, "tax_amount")) ELSE Num(0)]

-----------------------------------------------------------------------------
(* The collaborators' possible answers                                      *)

\* R_PARTIAL: the payload of the missing-keys example: one schema key only
R_PARTIAL ==
    <<"{", QT, "d", "a", "t", "e", QT, ":", QT, "2", "0", "2", "5", "-",
      "0", "1", "-", "0", "1", QT, "}">>

\* R_FULL: a clean payload with the ten schema keys
R_FULL ==
    <<"{", QT, "d", "a", "t", "e", QT, ":", QT, "2", "0", "2", "5", "-",
      "0", "8", "-", "2", "1", QT, ",", QT, "i", "n", "v", "o", "i", "c",
      "e", "_", "n", "u", "m", "b", "e", "r", QT, ":", QT, "S", "1", QT,
      ",", QT, "p", "a", "r", "t", "y", "_", "n", "a", "m", "e", QT, ":",
      QT, "V", QT, ",", QT, "p", "a", "r", "t", "y", "_", "a", "d", "d",
      "r", "e", "s", "s", QT, ":", QT, "A", QT, ",", QT, "t", "r", "n",
      QT, ":", "n", "u", "l", "l", ",", QT, "s", "u", "b", "t", "o", "t",
      "a", "l", QT, ":", "1", "8", "0", "0", "0", ",", QT, "t", "a", "x",
      "_", "a", "m", "o", "u", "n", "t", QT, ":", "9", "0", "0", ",", QT,
      "n", "e", "t", "_", "t", "o", "t", "a", "l", QT, ":", "1", "8",
      "9", "0", "0", ",", QT, "c", "u", "r", "r", "e", "n", "c", "y", QT,
      ":", QT, "A", "E", "D", QT, ",", QT, "i", "t", "e", "m", "s", "_",
      "c", "o", "u", "n", "t", QT, ":", "1", "}">>

\* R_FENCED: a fenced payload with surrounding prose
R_FENCED ==
    <<"H", "e", "r", "e", ":", NL, BT, BT, BT, "j", "s", "o", "n", NL,
      "{", QT, "n", "e", "t", "_", "t", "o", "t", "a", "l", QT, ":", " ",
      "1", "5", "7", "5", "0", ",", " ", QT, "t", "a", "x", "_", "a",
      "m", "o", "u", "n", "t", QT, ":", " ", "7", "5", "0", "}", NL, BT,
      BT, BT, NL, "D", "o", "n", "e", ".">>

\* R_NOT_JSON: no payload at all
R_NOT_JSON ==
    <<"n", "o", "t", " ", "j", "s", "o", "n">>

\* R_LIST: well-formed JSON that is not a mapping
R_LIST ==
    <<"[", "1", "]">>

\* R_TRUNCATED: a completion cut off inside a string
R_TRUNCATED ==
    <<BT, BT, BT, "j", "s", "o", "n", NL, "{", QT, "d", "a", "t", "e",
      QT, ":", QT, "2", "0", "2", "5">>

\* R_SPOOF: a payload that carries the bookkeeping keys itself
R_SPOOF ==
    <<"{", QT, "p", "r", "o", "c", "e", "s", "s", "i", "n", "g", "_",
      "s", "t", "a", "t", "u", "s", QT, ":", QT, "f", "a", "i", "l", "e",
      "d", QT, ",", QT, "e", "r", "r", "o", "r", "_", "m", "e", "s", "s",
      "a", "g", "e", QT, ":", QT, "x", QT, ",", QT, "n", "e", "t", "_",
      "t", "o", "t", "a", "l", QT, ":", "1", "}">>

Responses ==
    {R_PARTIAL, R_FULL, R_FENCED, R_NOT_JSON, R_LIST, R_TRUNCATED, R_SPOOF}

\* str(e) of an exception a collaborator raises
Causes == {"Request timed out", "quota exceeded"}

\* pdf_file.name of the uploaded documents
Names == {"a.pdf", "b.pdf"}

MaxFiles == 2

-----------------------------------------------------------------------------
(* The batch loop of the script and the steps of parse_invoice.  A call of *)
(* parse_invoice is cut at its two collaborator calls: each may return,    *)
(* raise, or never return.                                                 *)

NoText == <<"<unset>">>

IdleBatch ==
    /\ uploaded_files = <<>>
    /\ idx = 0
    /\ rows = <<>>
    /\ tmp_files = {}
    /\ tmp_path = 0
    /\ history = <<>>

IdleFrame ==
    /\ df = <<>>
    /\ stats = [computed |-> FALSE]

IdleClean ==
    /\ text = NoText
    /\ cleaned = NoText
    /\ recleaned = NoText

NoCalls ==
    [load_calls |-> 0, load_result |-> "none",
     gen_calls |-> 0, gen_result |-> "none",
     cause |-> "", response |-> NoText]

FileLists == UNION {[1..n -> Names] : n \in 1..MaxFiles}

\* the Convert button is disabled while nothing is uploaded
Init ==
    /\ pc = "loop"
    /\ uploaded_files \in FileLists
    /\ idx = 0
    /\ rows = <<>>
    /\ tmp_files = {}
    /\ tmp_path = 0
    /\ history = [d \in 1..Len(uploaded_files) |-> NoCalls]
    /\ IdleFrame
    /\ IdleClean

\* the document the running iteration works on
doc == idx + 1

\* parse_invoice ends: the loop appends what it returned (rows.append), or the
\* exception it let through ends the script
Finish(outcome) ==
    /\ tmp_path' = 0
    /\ IF outcome.returned
       THEN /\ rows' = Append(rows, outcome.record)
            /\ idx' = idx + 1
            /\ pc' = "loop"
       ELSE /\ pc' = "uncaught"
            /\ UNCHANGED <<rows, idx>>

\* loop head, pdf_file.seek(0), and the staging of the bytes in a temporary file
\* created with delete=False
StageDocument ==
    /\ pc = "loop"
    /\ idx < Len(uploaded_files)
    /\ tmp_path' = doc
    /\ tmp_files' = tmp_files \cup {doc}
    /\ pc' = "load_data"
    /\ UNCHANGED <<uploaded_files, idx, rows, history, frameVars, cleanVars>>

\* parser.load_data raises, the handler's record is returned and the call goes
\* on to the completion request all the same
LoadDataRaisesAndContinues ==
    \E c \in Causes :
        /\ pc = "load_data"
        /\ history' = [history EXCEPT ![doc].load_calls = @ + 1,
                                      ![doc].load_result = "raised",
                                      ![doc].cause = c]
        /\ pc' = "generate_content"
        /\ UNCHANGED <<uploaded_files, idx, rows, tmp_files, tmp_path,
                       frameVars, cleanVars>>

\* parser.load_data returns; os.remove(tmp_path)
LoadDataReturns ==
    /\ pc = "load_data"
    /\ history' = [history EXCEPT ![doc].load_calls = @ + 1,
                                  ![doc].load_result = "ok"]
    /\ tmp_files' = tmp_files \ {tmp_path}
    /\ pc' = "generate_content"
    /\ UNCHANGED <<uploaded_files, idx, rows, tmp_path, frameVars, cleanVars>>

\* parser.load_data raises: control goes to "except Exception"
LoadDataRaises ==
    \E c \in Causes :
        /\ pc = "load_data"
        /\ history' = [history EXCEPT ![doc].load_calls = @ + 1,
                                      ![doc].load_result = "raised",
                                      ![doc].cause = c]
        /\ Finish(parse_invoice_except([type |-> "Exception", msg |-> c],
                                       uploaded_files[doc]))
        /\ UNCHANGED <<uploaded_files, tmp_files, frameVars, cleanVars>>

\* parser.load_data never returns: the call has no deadline
LoadDataBlocks ==
    /\ pc = "load_data"
    /\ history' = [history EXCEPT ![doc].load_calls = @ + 1,
                                  ![doc].load_result = "blocked"]
    /\ pc' = "load_data_blocked"
    /\ UNCHANGED <<uploaded_files, idx, rows, tmp_files, tmp_path,
                   frameVars, cleanVars>>

\* model.generate_content returns: sanitize, decode, build the record, return
GenerateContentReturns ==
    \E r \in Responses :
        /\ pc = "generate_content"
        /\ history' = [history EXCEPT ![doc].gen_calls = @ + 1,
                                      ![doc].gen_result = "ok",
                                      ![doc].response = r]
        /\ Finish(parse_invoice_payload(r, uploaded_files[doc]))
        /\ UNCHANGED <<uploaded_files, tmp_files, frameVars, cleanVars>>

\* model.generate_content (or response.text) raises
GenerateContentRaises ==
    \E c \in Causes :
        /\ pc = "generate_content"
        /\ history' = [history EXCEPT ![doc].gen_calls = @ + 1,
                                      ![doc].gen_result = "raised",
                                      ![doc].cause = c]
        /\ Finish(parse_invoice_except([type |-> "Exception", msg |-> c],
                                       uploaded_files[doc]))
        /\ UNCHANGED <<uploaded_files, tmp_files, frameVars, cleanVars>>

\* model.generate_content never returns: the call has no deadline
GenerateContentBlocks ==
    /\ pc = "generate_content"
    /\ history' = [history EXCEPT ![doc].gen_calls = @ + 1,
                                  ![doc].gen_result = "blocked"]
    /\ pc' = "generate_content_blocked"
    /\ UNCHANGED <<uploaded_files, idx, rows, tmp_files, tmp_path,
                   frameVars, cleanVars>>

\* after the loop: df = pd.DataFrame(rows); df = df[column_order];
\* stats = create_summary_stats(df)
BuildFrame ==
    /\ pc = "loop"
    /\ idx = Len(uploaded_files)
    /\ IF selection_raises(rows)
       THEN /\ pc' = "KeyError"
            /\ UNCHANGED frameVars
       ELSE /\ df' = DataFrame(rows)
            /\ stats' = create_summary_stats(DataFrame(rows))
            /\ pc' = "done"
    /\ UNCHANGED <<batchVars, cleanVars>>

Next ==
    \/ StageDocument
    \/ LoadDataReturns
    \/ LoadDataRaises
    \/ LoadDataBlocks
    \/ GenerateContentReturns
    \/ GenerateContentRaises
    \/ GenerateContentBlocks
    \/ BuildFrame

Spec == Init /\ [][Next]_vars

\* the interpreter takes the script's own steps whenever they can be taken;
\* nothing obliges a collaborator to answer
FairSpec == Spec /\ WF_vars(StageDocument) /\ WF_vars(BuildFrame)

-----------------------------------------------------------------------------
(* Study of the sanitizer as a pure function: the input is drawn from the  *)
(* texts made of at most MaxChunks chunks, then sanitized twice.           *)

MaxChunks == 4

Chunks ==
    { <<BT>>, FENCE, FENCE_JSON, <<LB>>, <<RB>>, <<SP>>, <<NL>>, <<"a">>,
      <<"j", "s", "o", "n">> }

ChunkLists == UNION {[1..n -> Chunks] : n \in 0..MaxChunks}

\* the fenced payload of the sanitizer's documented example
EX_FENCED ==
    <<BT, BT, BT, "j", "s", "o", "n", NL, "{", QT, "a", QT, ":", "1",
      "}", NL, BT, BT, BT>>

\* its payload
EX_PAYLOAD ==
    <<"{", QT, "a", QT, ":", "1", "}">>

\* the same fenced payload inside prose
EX_PROSE ==
    <<"S", "u", "r", "e", ":", " ", BT, BT, BT, "j", "s", "o", "n", NL,
      "{", QT, "a", QT, ":", "1", "}", NL, BT, BT, BT, " ", "b", "y", "e">>

Examples == {EX_FENCED, EX_PROSE}

Inputs == {Concat(cs) : cs \in ChunkLists} \cup Examples \cup Responses

InitClean ==
    /\ pc = "raw"
    /\ text \in Inputs
    /\ cleaned = NoText
    /\ recleaned = NoText
    /\ IdleBatch
    /\ IdleFrame

Sanitize ==
    /\ pc = "raw"
    /\ cleaned' = clean_json_response(text)
    /\ pc' = "cleaned"
    /\ UNCHANGED <<text, recleaned, batchVars, frameVars>>

Resanitize ==
    /\ pc = "cleaned"
    /\ recleaned' = clean_json_response(cleaned)
    /\ pc' = "recleaned"
    /\ UNCHANGED <<text, cleaned, batchVars, frameVars>>

NextClean == Sanitize \/ Resanitize

SpecClean == InitClean /\ [][NextClean]_vars

-----------------------------------------------------------------------------
(* Study of create_summary_stats as a pure function: the frame is drawn    *)
(* from the frames of at most MaxRows rows.                                *)

MaxRows == 3

SampleAmounts == {Null, Num(0), Num(15750)}
SampleTaxes == {Null, Num(750)}

SampleRecords ==
    {failed_record("a.pdf", Str("quota exceeded"))}
      \cup {success_record([k \in DomainFields |->
                               IF k = "net_total" THEN a
                               ELSE IF k = "tax_amount" THEN x ELSE Null], "b.pdf") :
              a \in SampleAmounts, x \in SampleTaxes}

SampleRows == {DataFrame(<<r>>)[1] : r \in SampleRecords}

InitStats ==
    /\ pc = "frame"
    /\ df \in UNION {[1..n -> SampleRows] : n \in 0..MaxRows}
    /\ stats = [computed |-> FALSE]
    /\ IdleBatch
    /\ IdleClean

ComputeStats ==
    /\ pc = "frame"
    /\ stats' = create_summary_stats(df)
    /\ pc' = "stats"
    /\ UNCHANGED <<df, batchVars, cleanVars>>

NextStats == ComputeStats

SpecStats == InitStats /\ [][NextStats]_vars

-----------------------------------------------------------------------------
(* Properties                                                               *)

Status(r) == r["processing_status"]
Success == Str("success")
Failed == Str("failed")
Returned_docs == 1..Len(rows)

\* C1: the loop appends exactly one record per document it has finished, the
\* i-th record carries the i-th document's name, every record's status is
\* success or failed, no exception leaves parse_invoice, and once the loop is
\* over there are as many records as documents.
C1_OneRecordPerDocument ==
    /\ pc /= "uncaught"
    /\ Len(rows) = idx
    /\ idx <= Len(uploaded_files)
    /\ \A i \in Returned_docs :
          /\ rows[i]["source_file"] = Str(uploaded_files[i])
          /\ Status(rows[i]) \in {Success, Failed}
    /\ \A d \in 1..Len(uploaded_files) :
          (history[d].load_result = "raised" \/ history[d].gen_result \in {"ok", "raised"})
              => d <= Len(rows)
    /\ pc \in {"done", "KeyError"} => Len(rows) = Len(uploaded_files)

C1_Witness ==
    /\ pc = "done"
    /\ Len(rows) = Len(uploaded_files)
    /\ Len(rows) >= 2
    /\ history[1].load_result = "raised"
    /\ Status(rows[1]) = Failed
    /\ history[2].response = R_LIST
    /\ Status(rows[2]) = Failed

\* C2: once parse_invoice has returned for a document, the temporary file it
\* staged for that document no longer exists.
C2_TempFileReleased ==
    \A d \in Returned_docs : d \notin tmp_files

\* C3: a failed record has the ten domain fields null and a non-null
\* error_message; a success record has a null error_message; so error_message
\* is non-null exactly for the failed records.
C3_StatusFieldsCoherent ==
    \A i \in Returned_docs :
        /\ "error_message" \in DOMAIN rows[i]
        /\ Status(rows[i]) = Failed =>
              /\ \A f \in DomainFields : f \in DOMAIN rows[i] /\ rows[i][f] = Null
              /\ rows[i]["error_message"] /= Null
        /\ Status(rows[i]) = Success => rows[i]["error_message"] = Null
        /\ (rows[i]["error_message"] /= Null) <=> (Status(rows[i]) = Failed)

C3_Witness ==
    /\ Len(rows) >= 2
    /\ Status(rows[1]) = Failed
    /\ history[1].response = R_NOT_JSON
    /\ Status(rows[2]) = Success
    /\ history[2].response = R_SPOOF

\* C4: a success record holds every schema field (a key the payload lacks is
\* null), so the frame with the full ordered column set can always be built.
C4_SuccessRecordHasEverySchemaField ==
    /\ \A i \in Returned_docs :
          Status(rows[i]) = Success => DomainFields \subseteq DOMAIN rows[i]
    /\ pc /= "KeyError"

Blocked == pc \in {"load_data_blocked", "generate_content_blocked"}

\* C6: a collaborator call that never returns is eventually given up, and the
\* loop goes on to finish every document.
C6_BlockedCallIsGivenUp ==
    Blocked ~> (idx = Len(uploaded_files))

HasFence(t) == \E i \in 1..(Len(t) - 2) : SubSeq(t, i, i + 2) = FENCE

\* C8: sanitizing a sanitized text changes nothing, and no fence marker is left
\* in a sanitized text.
C8_SanitizerIdempotent ==
    /\ pc \in {"cleaned", "recleaned"} => ~HasFence(cleaned)
    /\ pc = "recleaned" => recleaned = cleaned

\* two backticks, a json fence and a backtick: deleting the json fence forms a
\* new fence
C8_Witness ==
    /\ pc = "recleaned"
    /\ text = <<BT, BT>> \o FENCE_JSON \o <<BT>>
    /\ HasFence(re_sub(FENCE_JSON, text))
    /\ cleaned = <<>>
    /\ recleaned = <<>>

Opens(t) == {i \in 1..Len(t) : t[i] = LB}
Closes(t) == {i \in 1..Len(t) : t[i] = RB}
HasSpan(t) == \E i \in Opens(t), j \in Closes(t) : i < j

\* out is t without its leading and trailing whitespace
IsTrimOf(out, t) ==
    \E a \in 1..(Len(t) + 1), b \in 0..Len(t) :
        /\ out = SubSeq(t, a, b)
        /\ \A k \in 1..(a - 1) : t[k] \in Whitespace
        /\ \A k \in (b + 1)..Len(t) : t[k] \in Whitespace
        /\ out /= <<>> => (out[1] \notin Whitespace /\ out[Len(out)] \notin Whitespace)

NoBraces(t) == \A k \in 1..Len(t) : t[k] \notin {LB, RB}

\* the text is prose, a brace-delimited payload without backticks, prose
WrappedPayload(t, a, b) ==
    /\ a < b
    /\ t[a] = LB
    /\ t[b] = RB
    /\ \A k \in a..b : t[k] /= BT
    /\ NoBraces(SubSeq(t, 1, a - 1))
    /\ NoBraces(SubSeq(t, b + 1, Len(t)))

\* C9 as stated, last clause: without a brace-delimited span the result is the
\* trimmed input itself.
C9_NoSpanReturnsTrimmedInput ==
    (pc = "cleaned" /\ ~HasSpan(text)) => IsTrimOf(cleaned, text)

\* C9 as amended: the result holds no fence marker; with a brace-delimited span
\* it is the remaining text from its first opening brace through its last
\* closing brace, so a payload wrapped in fences and prose comes out exactly;
\* without one it is the remaining text (the input with the fences deleted),
\* trimmed, which is the trimmed input when the input holds no fence.
C9_SanitizerSpan ==
    pc = "cleaned" =>
        LET remaining == re_sub(FENCE, re_sub(FENCE_JSON, text))
        IN  /\ ~HasFence(remaining)
            /\ ~HasFence(cleaned)
            /\ HasSpan(text) <=> HasSpan(remaining)
            /\ HasSpan(text) =>
                  cleaned = SubSeq(remaining, Min(Opens(remaining)), Max(Closes(remaining)))
            /\ \A a \in 1..Len(text), b \in 1..Len(text) :
                  WrappedPayload(text, a, b) => cleaned = SubSeq(text, a, b)
            /\ ~HasSpan(text) => IsTrimOf(cleaned, remaining)
            /\ (~HasSpan(text) /\ ~HasFence(text)) => IsTrimOf(cleaned, text)

C9_Witness ==
    /\ pc = "cleaned"
    /\ text = EX_PROSE
    /\ cleaned = EX_PAYLOAD

\* C10: a document's completion request is made at most once and only after
\* its text extraction has returned; when the text extraction raises, the call
\* returns a failed record and no completion request is made.
C10_StepsOrdered ==
    /\ \A d \in 1..Len(uploaded_files) :
          /\ history[d].load_calls <= 1
          /\ history[d].gen_calls <= 1
          /\ history[d].gen_calls > 0 => history[d].load_result = "ok"
          /\ history[d].load_result = "raised" =>
                /\ history[d].gen_calls = 0
                /\ d <= Len(rows)
                /\ Status(rows[d]) = Failed
    /\ pc \in {"generate_content", "generate_content_blocked"} =>
          history[doc].load_result = "ok"

C10_Witness ==
    /\ Len(rows) >= 2
    /\ history[1].load_result = "raised"
    /\ history[1].gen_calls = 0
    /\ history[2].load_result = "ok"
    /\ history[2].gen_calls = 1

=============================================================================
